---- MODULE Spec2Model ----
(***************************************************************************)
(* prettyslog: a log/slog handler that renders one record as one line.     *)
(*                                                                         *)
(* Text is modelled as a sequence of tokens (each token an indivisible     *)
(* piece of text), so that concatenation, colour wrapping, key prefixing   *)
(* and separators are computed as the code computes them and the written   *)
(* line can be inspected token by token.                                   *)
(***************************************************************************)
EXTENDS Integers, Sequences, FiniteSets, TLC

(***************************************************************************)
(* Bounds of the model.                                                    *)
(***************************************************************************)
NProcs == 2          \* goroutines that call Handle
MaxCalls == 2        \* records logged in the concurrent workload
ConcDerive == 1      \* WithAttrs/WithGroup calls in the concurrent workload
MaxDerive == 2       \* WithAttrs/WithGroup calls in the derivation workload
RenderDerive == 1    \* WithAttrs/WithGroup calls in the rendering workload

Procs == 1..NProcs

(***************************************************************************)
(* Colour codes (part_000:15-26).  The escape byte is written ESC.         *)
(***************************************************************************)
FgRed == "ESC[31m"
FgYellow == "ESC[33m"
FgBlue == "ESC[34m"
FgMagenta == "ESC[35m"
FgWhite == "ESC[37m"
FgGray == "ESC[90m"
ColorReset == "ESC[0m"

ColorCodes == {FgRed, FgYellow, FgBlue, FgMagenta, FgWhite, FgGray}

(***************************************************************************)
(* slog levels as the integers slog gives them.                            *)
(***************************************************************************)
LevelDebug == -4
LevelInfo == 0
LevelWarn == 4
LevelError == 8

(***************************************************************************)
(* Strings as token sequences: the empty string is the empty sequence.     *)
(***************************************************************************)
Str(s) == IF s = "" THEN << >> ELSE <<s>>

(***************************************************************************)
(* options, defaultOptions and the functional options.  The workloads      *)
(* keep the default timestamp layout and the one writer, so the options    *)
(* WithTimestampFormat and WithWriter are not among the options applied.   *)
(***************************************************************************)
defaultOptions ==
    [ includeTimestamp |-> TRUE,
      includeSource    |-> FALSE,
      colors           |-> TRUE,
      timestampFormat  |-> "[15:04:05.000]",
      levelColors      |-> (LevelDebug :> FgMagenta) @@ (LevelInfo :> FgBlue)
                           @@ (LevelWarn :> FgYellow) @@ (LevelError :> FgRed),
      level            |-> LevelInfo,
      writer           |-> 1 ]

WithTimestamp(enabled) == [opt |-> "WithTimestamp", b |-> enabled, lv |-> 0]
WithSource(enabled) == [opt |-> "WithSource", b |-> enabled, lv |-> 0]
WithColors(enabled) == [opt |-> "WithColors", b |-> enabled, lv |-> 0]
WithLevel(level) == [opt |-> "WithLevel", b |-> FALSE, lv |-> level]

\* opt(&options): each option assigns exactly one field.
ApplyOption(o, opt) ==
    CASE opt.opt = "WithTimestamp" -> [o EXCEPT !.includeTimestamp = opt.b]
      [] opt.opt = "WithSource"    -> [o EXCEPT !.includeSource = opt.b]
      [] opt.opt = "WithColors"    -> [o EXCEPT !.colors = opt.b]
      [] opt.opt = "WithLevel"     -> [o EXCEPT !.level = opt.lv]

RECURSIVE ApplyOptions(_, _)
ApplyOptions(o, opts) ==
    IF opts = << >> THEN o
    ELSE ApplyOptions(ApplyOption(o, Head(opts)), Tail(opts))

\* NewPrettyslogHandler: the one mutex (1) and the one writer of the root.
NewPrettyslogHandler(group, opts) ==
    LET options == ApplyOptions(defaultOptions, opts)
    IN [ mu     |-> 1,
         writer |-> options.writer,
         groups |-> <<group>>,
         opts   |-> options,
         attrs  |-> << >> ]

(***************************************************************************)
(* slog.Attr: a key and a value of kind String, Int64 or Group.            *)
(***************************************************************************)
StringAttr(k, v) == [key |-> k, kind |-> "String", str |-> v, num |-> 0, group |-> << >>]
IntAttr(k, n) == [key |-> k, kind |-> "Int64", str |-> "", num |-> n, group |-> << >>]
GroupAttr(k, as) == [key |-> k, kind |-> "Group", str |-> "", num |-> 0, group |-> as]

\* fmt.Sprintf("%v", attr.Value.Any())
Sprintv(a) == IF a.kind = "Int64" THEN <<ToString(a.num)>> ELSE Str(a.str)

(***************************************************************************)
(* colorize                                                                *)
(***************************************************************************)
\* mutant: the enable flag ignored
colorizeAlways(text, enable, colorCode) ==
    IF colorCode = "" THEN text
    ELSE <<colorCode>> \o text \o <<ColorReset>>

colorize(text, enable, colorCode) ==
    IF ~enable \/ colorCode = "" THEN text
    ELSE <<colorCode>> \o text \o <<ColorReset>>

\* h.opts.levelColors[level]: a missing key reads as the empty string.
LevelColorOf(o, level) ==
    IF level \in DOMAIN o.levelColors THEN o.levelColors[level] ELSE ""

formatLevel(o, level) ==
    LET levelStr == CASE level = LevelDebug -> "DBG"
                      [] level = LevelInfo  -> "INF"
                      [] level = LevelWarn  -> "WAR"
                      [] level = LevelError -> "ERR"
                      [] OTHER              -> "UNK"
        c == LevelColorOf(o, level)
        colorCode == IF c = "" THEN FgWhite ELSE c
    IN colorize(<<levelStr>>, o.colors, colorCode)

(***************************************************************************)
(* formatAttr and formatAttrs.  prefix is the dotted key prefix as text.   *)
(***************************************************************************)
Separator(o) == colorize(<<";">>, o.colors, FgGray) \o <<" ">>

RECURSIVE formatAttr(_, _, _, _)
RECURSIVE formatGroupAttrs(_, _, _, _)

\* the loop over groupAttrs inside formatAttr
formatGroupAttrs(o, groupAttrs, levelColor, newPrefix) ==
    IF groupAttrs = << >> THEN << >>
    ELSE Separator(o)
         \o formatAttr(o, Head(groupAttrs), levelColor, newPrefix)
         \o formatGroupAttrs(o, Tail(groupAttrs), levelColor, newPrefix)

formatAttr(o, attr, levelColor, prefix) ==
    IF attr.kind = "Group"
    THEN LET groupName == Str(attr.key)
             newPrefix == IF prefix # << >> THEN prefix \o <<".">> \o groupName
                          ELSE groupName
         IN formatGroupAttrs(o, attr.group, levelColor, newPrefix)
    ELSE LET key == IF prefix # << >> THEN prefix \o <<".">> \o Str(attr.key)
                    ELSE Str(attr.key)
         IN colorize(key, o.colors, levelColor)
            \o colorize(<<"=">>, o.colors, FgGray)
            \o colorize(Sprintv(attr), o.colors, "")

RECURSIVE formatAttrs(_, _, _)
formatAttrs(o, attrs, levelColor) ==
    IF attrs = << >> THEN << >>
    ELSE Separator(o)
         \o formatAttr(o, Head(attrs), levelColor, << >>)
         \o formatAttrs(o, Tail(attrs), levelColor)

(***************************************************************************)
(* slog.Record: Level, Message, Time (0 is the zero time), PC, attributes. *)
(***************************************************************************)
Record(level, msg, time, pcv, attrs) ==
    [Level |-> level, Message |-> msg, Time |-> time, PC |-> pcv, attrs |-> attrs]

\* mutant: the zero time taken for a set time
IsZeroNever(t) == FALSE

IsZero(t) == t = 0

\* r.Time.Format(layout): the default layout prints the clock in brackets;
\* a layout without reference digits is printed literally.
TimeFormat(t, layout) ==
    IF layout = "[15:04:05.000]"
    THEN <<"[", "10:30:0" \o ToString(t), ".", "000", "]">>
    ELSE Str(layout)

\* runtime.CallersFrames([]uintptr{pc}).Next() and Sprintf("%s:%d", ...)
FrameOf(pcv) == [File |-> "main.go", Line |-> 40 + pcv]
SourceText(pcv) == <<FrameOf(pcv).File, ":", ToString(FrameOf(pcv).Line)>>

\* mutant: a strict comparison
EnabledStrict(h, level) == level > h.opts.level

Enabled(h, level) == level >= h.opts.level

\* mutant: the record's attributes first
collectAttrsRecordFirst(h, r) == r.attrs \o h.attrs

collectAttrs(h, r) == h.attrs \o r.attrs

\* mutant: the root's name instead of the deepest group
ScopeLabelFirst(h) == h.groups[1]

\* line 131: the scope label is the last entry of the scope stack
ScopeLabel(h) == h.groups[Len(h.groups)]

\* Handle, lines 129-165: the line built in the strings.Builder b.
RenderLine(h, r) ==
    LET o == h.opts
        groupName == ScopeLabel(h)
        timestamp == IF o.includeTimestamp /\ ~IsZero(r.Time)
                     THEN colorize(TimeFormat(r.Time, o.timestampFormat), o.colors, FgGray)
                          \o <<" ">>
                     ELSE << >>
        source == IF o.includeSource /\ r.PC # 0
                  THEN colorize(SourceText(r.PC), o.colors, FgGray) \o <<" ">>
                  ELSE << >>
        attrs == collectAttrs(h, r)
        c == LevelColorOf(o, r.Level)
        levelColor == IF c = "" THEN FgWhite ELSE c
    IN colorize(Str(groupName), o.colors, "") \o <<" ">>
       \o formatLevel(o, r.Level) \o <<" ">>
       \o timestamp
       \o source
       \o colorize(Str(r.Message), o.colors, "")
       \o (IF Len(attrs) > 0 THEN formatAttrs(o, attrs, levelColor) ELSE << >>)
       \o <<"\n">>

(***************************************************************************)
(* sync.Mutex: 0 is unlocked, otherwise the goroutine that holds it.       *)
(***************************************************************************)
\* mutant: Lock that never waits
NoLock(m, p) == TRUE

CanLock(m, p) == m = 0

\* mutant: Unlock skipped on the error return
UnlockUnlessErr(m, p, err) == IF err # "" THEN m ELSE 0

\* defer h.mu.Unlock(): runs on every return after Lock, whatever err is.
Unlock(m, p, err) == 0

(***************************************************************************)
(* WithAttrs and WithGroup on the heap hs of handlers: the heap after the  *)
(* call and the handler returned.                                          *)
(***************************************************************************)
\* mutant: the receiver extended in place and returned
WithAttrsInPlace(hs, i, attrs) ==
    IF Len(attrs) = 0 THEN [heap |-> hs, ret |-> i]
    ELSE [heap |-> [hs EXCEPT ![i].attrs = hs[i].attrs \o attrs], ret |-> i]

WithAttrs(hs, i, attrs) ==
    IF Len(attrs) = 0 THEN [heap |-> hs, ret |-> i]
    ELSE LET h2 == [hs[i] EXCEPT !.attrs = hs[i].attrs \o attrs]
         IN [heap |-> Append(hs, h2), ret |-> Len(hs) + 1]

\* mutant: no early return for the empty name
WithGroupAlways(hs, i, name) ==
    LET h2 == [hs[i] EXCEPT !.groups = Append(hs[i].groups, name)]
    IN [heap |-> Append(hs, h2), ret |-> Len(hs) + 1]

WithGroup(hs, i, name) ==
    IF name = "" THEN [heap |-> hs, ret |-> i]
    ELSE LET h2 == [hs[i] EXCEPT !.groups = Append(hs[i].groups, name)]
         IN [heap |-> Append(hs, h2), ret |-> Len(hs) + 1]

(***************************************************************************)
(* The writer: Write(data) copies the data into the sink in two pieces     *)
(* (as a buffer that grows in between does), or fails with an error.       *)
(***************************************************************************)
FirstPiece(data) == SubSeq(data, 1, Len(data) \div 2)
RestPiece(data) == SubSeq(data, Len(data) \div 2 + 1, Len(data))
WriteErrors == {"EPIPE", "ENOSPC"}

(***************************************************************************)
(* Inputs.                                                                 *)
(***************************************************************************)
SessionAttr == StringAttr("session_id", "abc123")
ReqGroup == GroupAttr("req", <<StringAttr("id", "r1"), IntAttr("n", 2)>>)
UserAttr == StringAttr("user", "johndoe")
CodeAttr == IntAttr("code", 7)
NestedGroup == GroupAttr("http", <<GroupAttr("hdr", <<StringAttr("host", "h1")>>),
                                   IntAttr("status", 200)>>)

DeriveAttrs == { << >>, <<SessionAttr>>, <<ReqGroup>> }
DeriveGroups == { "", "db" }

\* the concurrent workload: default options, MaxCalls records
ConcOptions == { << >> }
ConcRecords ==
    { Record(LevelInfo, "started", 1, 0, <<UserAttr>>),
      Record(LevelDebug, "probe", 1, 0, << >>) }

\* the derivation workload: default options, chains of derivations, one record
DeriveRecords ==
    { Record(LevelInfo, "started", 1, 0, <<UserAttr, CodeAttr>>),
      Record(LevelDebug, "probe", 1, 0, << >>) }

\* the rendering workload: every option combination, one record of any shape
RenderOptions ==
    { <<WithTimestamp(a), WithSource(b), WithColors(c), WithLevel(l)>> :
        a \in BOOLEAN, b \in BOOLEAN, c \in BOOLEAN, l \in {LevelDebug, LevelWarn} }
RenderLevels == {LevelDebug, LevelInfo, LevelWarn, LevelError, 2}
RenderAttrs == { << >>, <<UserAttr>>, <<NestedGroup, CodeAttr>>, <<ReqGroup>> }
RenderRecords ==
    { Record(l, "msg", t, c, as) :
        l \in RenderLevels, t \in {0, 1}, c \in {0, 1}, as \in RenderAttrs }

RECURSIVE SeqsOfLen(_, _)
SeqsOfLen(S, n) ==
    IF n = 0 THEN { << >> }
    ELSE { <<x>> \o s : x \in S, s \in SeqsOfLen(S, n - 1) }

(***************************************************************************)
(* State.                                                                  *)
(***************************************************************************)
VARIABLES
    handlers,   \* the heap of *PrettyslogHandler values, root first
    origin,     \* how each handler was made: parent, operation, argument
    ret,        \* the last WithAttrs/WithGroup call and what it returned
    mu,         \* the root's mutex
    sink,       \* what the writer holds: the pieces written, in order
    writes,     \* the Write calls made on the writer
    calls,      \* the Handle calls made: handler, record, outcome
    pc,         \* where each goroutine is inside Handle
    frame,      \* the locals of each goroutine's Handle call
    todo,       \* records the application has yet to log
    fuel        \* derivations the application has yet to make

vars == <<handlers, origin, ret, mu, sink, writes, calls, pc, frame, todo, fuel>>

NoFrame == [c |-> 0, b |-> << >>, w |-> 0]
NoRet == [op |-> "none", recv |-> 0, attrs |-> << >>, name |-> "", result |-> 0]

InitWith(optionLists, workloads, derivations) ==
    /\ \E opts \in optionLists :
         handlers = <<NewPrettyslogHandler("TestApp", opts)>>
    /\ origin = <<[parent |-> 0, op |-> "New", attrs |-> << >>, name |-> "TestApp"]>>
    /\ ret = NoRet
    /\ mu = 0
    /\ sink = << >>
    /\ writes = << >>
    /\ calls = << >>
    /\ pc = [p \in Procs |-> "idle"]
    /\ frame = [p \in Procs |-> NoFrame]
    /\ todo \in workloads
    /\ fuel = derivations

Init == InitWith(ConcOptions, SeqsOfLen(ConcRecords, MaxCalls), ConcDerive)

DeriveInit == InitWith(ConcOptions, SeqsOfLen(DeriveRecords, 1), MaxDerive)

RenderInit == InitWith(RenderOptions, SeqsOfLen(RenderRecords, 1), RenderDerive)

(***************************************************************************)
(* Derivation.  These never touch the mutex.                               *)
(***************************************************************************)
Derived(i, op, attrs, name, out) ==
    /\ handlers' = out.heap
    /\ origin' = IF Len(out.heap) > Len(handlers)
                 THEN Append(origin, [parent |-> i, op |-> op, attrs |-> attrs,
                                      name |-> name])
                 ELSE origin
    /\ ret' = [op |-> op, recv |-> i, attrs |-> attrs, name |-> name,
               result |-> out.ret]
    /\ fuel' = fuel - 1
    /\ UNCHANGED <<mu, sink, writes, calls, pc, frame, todo>>

WithAttrsCall(i, attrs) ==
    /\ fuel > 0
    /\ Derived(i, "WithAttrs", attrs, "", WithAttrs(handlers, i, attrs))

WithGroupCall(i, name) ==
    /\ fuel > 0
    /\ Derived(i, "WithGroup", << >>, name, WithGroup(handlers, i, name))

(***************************************************************************)
(* Handle, one goroutine p on handler i.                                   *)
(***************************************************************************)
\* lines 122-124: the level gate rejects; return nil before Lock
HandleReject(p, i) ==
    /\ pc[p] = "idle"
    /\ todo # << >>
    /\ ~Enabled(handlers[i], Head(todo).Level)
    /\ calls' = Append(calls, [h |-> i, r |-> Head(todo),
                               done |-> TRUE, err |-> ""])
    /\ todo' = Tail(todo)
    /\ UNCHANGED <<handlers, origin, ret, mu, sink, writes, pc, frame, fuel>>

\* line 122: the gate accepts; next is h.mu.Lock()
HandleEnter(p, i) ==
    /\ pc[p] = "idle"
    /\ todo # << >>
    /\ Enabled(handlers[i], Head(todo).Level)
    /\ calls' = Append(calls, [h |-> i, r |-> Head(todo),
                               done |-> FALSE, err |-> ""])
    /\ frame' = [frame EXCEPT ![p] = [c |-> Len(calls) + 1, b |-> << >>, w |-> 0]]
    /\ pc' = [pc EXCEPT ![p] = "lock"]
    /\ todo' = Tail(todo)
    /\ UNCHANGED <<handlers, origin, ret, mu, sink, writes, fuel>>

\* lines 126-165: Lock, then build the line in b
HandleLock(p) ==
    /\ pc[p] = "lock"
    /\ CanLock(mu, p)
    /\ mu' = p
    /\ LET c == calls[frame[p].c]
       IN frame' = [frame EXCEPT ![p].b = RenderLine(handlers[c.h], c.r)]
    /\ pc' = [pc EXCEPT ![p] = "write"]
    /\ UNCHANGED <<handlers, origin, ret, sink, writes, calls, todo, fuel>>

\* line 166: Write is called and copies the first piece
WriteBegin(p) ==
    /\ pc[p] = "write"
    /\ writes' = Append(writes, [c |-> frame[p].c, data |-> frame[p].b, err |-> ""])
    /\ sink' = Append(sink, [w |-> Len(writes) + 1, data |-> FirstPiece(frame[p].b)])
    /\ frame' = [frame EXCEPT ![p].w = Len(writes) + 1]
    /\ pc' = [pc EXCEPT ![p] = "writing"]
    /\ UNCHANGED <<handlers, origin, ret, mu, calls, todo, fuel>>

\* lines 166-167: Write copies the rest and returns nil; Handle returns nil
\* and the deferred Unlock runs
WriteEnd(p) ==
    /\ pc[p] = "writing"
    /\ sink' = Append(sink, [w |-> frame[p].w, data |-> RestPiece(frame[p].b)])
    /\ calls' = [calls EXCEPT ![frame[p].c].done = TRUE]
    /\ mu' = Unlock(mu, p, "")
    /\ frame' = [frame EXCEPT ![p] = NoFrame]
    /\ pc' = [pc EXCEPT ![p] = "idle"]
    /\ UNCHANGED <<handlers, origin, ret, writes, todo, fuel>>

\* lines 166-167: Write fails with e; Handle returns e and the deferred
\* Unlock runs
WriteFail(p, e) ==
    /\ pc[p] = "write"
    /\ writes' = Append(writes, [c |-> frame[p].c, data |-> frame[p].b, err |-> e])
    /\ calls' = [calls EXCEPT ![frame[p].c].done = TRUE, ![frame[p].c].err = e]
    /\ mu' = Unlock(mu, p, e)
    /\ frame' = [frame EXCEPT ![p] = NoFrame]
    /\ pc' = [pc EXCEPT ![p] = "idle"]
    /\ UNCHANGED <<handlers, origin, ret, sink, todo, fuel>>

Next ==
    \/ \E i \in DOMAIN handlers, attrs \in DeriveAttrs : WithAttrsCall(i, attrs)
    \/ \E i \in DOMAIN handlers, name \in DeriveGroups : WithGroupCall(i, name)
    \/ \E p \in Procs, i \in DOMAIN handlers : HandleReject(p, i)
    \/ \E p \in Procs, i \in DOMAIN handlers : HandleEnter(p, i)
    \/ \E p \in Procs : HandleLock(p)
    \/ \E p \in Procs : WriteBegin(p)
    \/ \E p \in Procs : WriteEnd(p)
    \/ \E p \in Procs, e \in WriteErrors : WriteFail(p, e)

Spec == Init /\ [][Next]_vars

DeriveSpec == DeriveInit /\ [][Next]_vars

RenderSpec == RenderInit /\ [][Next]_vars

(***************************************************************************)
(* Reading a written line back.                                            *)
(***************************************************************************)
\* stripAnsi of the tests: drop every colour code and reset
StripAnsi(line) == SelectSeq(line, LAMBDA t : t \notin ColorCodes \cup {ColorReset})

Max(S) == CHOOSE x \in S : \A y \in S : y <= x
Min(S) == CHOOSE x \in S : \A y \in S : x <= y

\* the Handle call a Write was made for, its handler and its record
CallOf(w) == calls[writes[w].c]
HandlerOf(w) == handlers[CallOf(w).h]
RecordOf(w) == CallOf(w).r
Accepted(c) == calls[c].r.Level >= handlers[calls[c].h].opts.level
WritesOf(c) == {w \in DOMAIN writes : writes[w].c = c}
InCritical(p) == pc[p] \in {"write", "writing"}

(***************************************************************************)
(* C1: all handlers derived from one root share its mutex and writer; at   *)
(* most one Handle is between Lock and Unlock at a time; every record that *)
(* was written reached the sink as the pieces of one Write call, adjacent  *)
(* and in order, making up its complete line, so no two lines interleave.  *)
(***************************************************************************)
C1_Serialized ==
    /\ \A i \in DOMAIN handlers :
         handlers[i].mu = handlers[1].mu /\ handlers[i].writer = handlers[1].writer
    /\ Cardinality({p \in Procs : InCritical(p)}) <= 1
    /\ \A i, j, k \in DOMAIN sink :
         (i < j /\ j < k /\ sink[i].w = sink[k].w) => sink[j].w = sink[i].w
    /\ \A c \in DOMAIN calls :
         (calls[c].done /\ Accepted(c) /\ calls[c].err = "") =>
            /\ Cardinality(WritesOf(c)) = 1
            /\ \E i \in DOMAIN sink :
                 /\ i + 1 \in DOMAIN sink
                 /\ sink[i].w \in WritesOf(c) /\ sink[i + 1].w = sink[i].w
                 /\ sink[i].data \o sink[i + 1].data = writes[sink[i].w].data
                 /\ writes[sink[i].w].data[Len(writes[sink[i].w].data)] = "\n"

\* a goroutine waits at Lock on one handler while another goroutine is in
\* the middle of its Write on a different handler of the same root
C1_Witness ==
    \E p, q \in Procs :
        /\ pc[p] = "writing" /\ pc[q] = "lock"
        /\ calls[frame[p].c].h # calls[frame[q].c].h

(***************************************************************************)
(* C8: a finished accepted Handle made exactly one Write and returned that *)
(* Write's error unchanged (nil when it succeeded); the mutex is held only *)
(* by a goroutine that is between Lock and return, so once every Handle    *)
(* has returned, with or without error, the mutex is free.                 *)
(***************************************************************************)
C8_ErrorAndUnlock ==
    /\ \A c \in DOMAIN calls :
         (calls[c].done /\ Accepted(c)) =>
            /\ Cardinality(WritesOf(c)) = 1
            /\ \A w \in WritesOf(c) : calls[c].err = writes[w].err
    /\ mu # 0 => (mu \in Procs /\ InCritical(mu))
    /\ (\A p \in Procs : ~InCritical(p)) => mu = 0

\* a Handle returned a write error and a later Handle, on another handler
\* of the same root, entered the critical section and completed
C8_Witness ==
    \E c1, c2 \in DOMAIN calls :
        /\ c1 < c2 /\ calls[c1].h # calls[c2].h
        /\ calls[c1].done /\ calls[c1].err \in WriteErrors
        /\ calls[c2].done /\ calls[c2].err = "" /\ Accepted(c2)
        /\ \E i \in DOMAIN sink : sink[i].w \in WritesOf(c2)

(***************************************************************************)
(* C2: a record below the handler's minimum level is finished at once,     *)
(* with nil and without any Write or any byte in the sink for it; a record *)
(* at or above the minimum level is written (one Write once it finished).  *)
(***************************************************************************)
C2_LevelGate ==
    \A c \in DOMAIN calls :
        LET below == calls[c].r.Level < handlers[calls[c].h].opts.level
        IN /\ below => /\ calls[c].done /\ calls[c].err = ""
                       /\ WritesOf(c) = {}
                       /\ \A p \in Procs : frame[p].c # c
           /\ (~below /\ calls[c].done) => Cardinality(WritesOf(c)) = 1
           /\ (~below /\ ~calls[c].done) => \E p \in Procs : frame[p].c = c

\* a record below the minimum level was handled by a derived handler that
\* carries a group or inherited attributes, and the sink is still empty
C2_Witness ==
    \E c \in DOMAIN calls :
        /\ calls[c].h > 1
        /\ calls[c].r.Level < handlers[calls[c].h].opts.level
        /\ calls[c].r.attrs # << >>
        /\ sink = << >> /\ writes = << >>

(***************************************************************************)
(* Expected pieces of a line, stated apart from the code that builds it.   *)
(***************************************************************************)
Range(q) == {q[i] : i \in DOMAIN q}
Count(q, t) == Cardinality({i \in DOMAIN q : q[i] = t})

TagOf(level) ==
    IF level = -4 THEN "DBG" ELSE IF level = 0 THEN "INF"
    ELSE IF level = 4 THEN "WAR" ELSE IF level = 8 THEN "ERR" ELSE "UNK"

TimestampOn(w) == HandlerOf(w).opts.includeTimestamp /\ RecordOf(w).Time # 0
SourceOn(w) == HandlerOf(w).opts.includeSource /\ RecordOf(w).PC # 0

\* everything up to and including the message, colours stripped
ExpectedHead(w) ==
    LET h == HandlerOf(w)
        r == RecordOf(w)
    IN <<h.groups[Len(h.groups)], " ", TagOf(r.Level), " ">>
       \o (IF TimestampOn(w)
           THEN TimeFormat(r.Time, h.opts.timestampFormat) \o <<" ">> ELSE << >>)
       \o (IF SourceOn(w) THEN SourceText(r.PC) \o <<" ">> ELSE << >>)
       \o <<r.Message>>

(***************************************************************************)
(* C3: every line handed to Write, colours stripped, is scope label,       *)
(* severity tag, timestamp, call site, message, each of the first four     *)
(* followed by exactly one space, then the attributes, then one newline;   *)
(* the timestamp is there iff includeTimestamp is on and the record's time *)
(* is set, the call site iff includeSource is on and the PC is non-zero.   *)
(***************************************************************************)
C3_LineFormat ==
    \A w \in DOMAIN writes :
        LET line == StripAnsi(writes[w].data)
            head == ExpectedHead(w)
            rest == SubSeq(line, Len(head) + 1, Len(line))
        IN /\ Len(line) > Len(head)
           /\ SubSeq(line, 1, Len(head)) = head
           /\ ("[" \in Range(line)) <=> TimestampOn(w)
           /\ (":" \in Range(line)) <=> SourceOn(w)
           /\ Count(SubSeq(line, 1, Len(head)), " ")
                = 2 + (IF TimestampOn(w) THEN 1 ELSE 0) + (IF SourceOn(w) THEN 1 ELSE 0)
           /\ rest[Len(rest)] = "\n" /\ Count(line, "\n") = 1
           /\ rest = <<"\n">> \/ rest[1] = ";"

\* timestamps are on but the record's time is zero, the call site is there,
\* the record has attributes: the line goes from the tag to the call site
C3_Witness ==
    \E w \in DOMAIN writes :
        /\ HandlerOf(w).opts.includeTimestamp /\ RecordOf(w).Time = 0
        /\ SourceOn(w)
        /\ RecordOf(w).attrs # << >>
        /\ HandlerOf(w).opts.colors
        /\ SubSeq(StripAnsi(writes[w].data), 3, 5) = <<TagOf(RecordOf(w).Level), " ", "main.go">>

(***************************************************************************)
(* C4: in every line handed to Write the number of "; " separators equals  *)
(* the number of scalar attributes among the inherited and the record's    *)
(* own attributes, groups flattened.                                       *)
(***************************************************************************)
RECURSIVE LeafCount(_)
LeafCount(attrs) ==
    IF attrs = << >> THEN 0
    ELSE (IF Head(attrs).kind = "Group" THEN LeafCount(Head(attrs).group) ELSE 1)
         + LeafCount(Tail(attrs))

SeparatorCount(line) ==
    Cardinality({i \in DOMAIN line : line[i] = ";" /\ i < Len(line) /\ line[i + 1] = " "})

C4_SeparatorsEqualLeaves ==
    \A w \in DOMAIN writes :
        SeparatorCount(StripAnsi(writes[w].data))
            = LeafCount(HandlerOf(w).attrs \o RecordOf(w).attrs)

(***************************************************************************)
(* C10: with colours off a line holds no colour code and no reset; with    *)
(* colours on the codes and resets alternate (code, text, reset), taking   *)
(* them away leaves the line the same handler writes with colours off, the *)
(* severity tag is wrapped in the level's colour (white when the level has *)
(* none) and the scope label and the message are not wrapped.              *)
(***************************************************************************)
Escapes(line) == SelectSeq(line, LAMBDA t : t \in ColorCodes \cup {ColorReset})

C10_Colors ==
    \A w \in DOMAIN writes :
        LET line == writes[w].data
            h == HandlerOf(w)
            r == RecordOf(w)
            esc == Escapes(line)
            m == Min({i \in DOMAIN line : line[i] = r.Message})
            lc == IF r.Level \in DOMAIN h.opts.levelColors
                  THEN h.opts.levelColors[r.Level] ELSE FgWhite
        IN IF ~h.opts.colors
           THEN esc = << >>
           ELSE /\ Len(esc) % 2 = 0
                /\ \A i \in DOMAIN esc :
                     IF i % 2 = 1 THEN esc[i] \in ColorCodes ELSE esc[i] = ColorReset
                /\ StripAnsi(line) = RenderLine([h EXCEPT !.opts.colors = FALSE], r)
                /\ SubSeq(line, 1, 5)
                     = <<h.groups[Len(h.groups)], " ", lc, TagOf(r.Level), ColorReset>>
                /\ line[m - 1] = " "
                /\ line[m + 1] \in {"\n", FgGray}

\* colours are off and the line has every segment: timestamp, call site,
\* nested group attributes
C10_Witness ==
    \E w \in DOMAIN writes :
        /\ ~HandlerOf(w).opts.colors
        /\ TimestampOn(w) /\ SourceOn(w)
        /\ RecordOf(w).attrs = <<NestedGroup, CodeAttr>>
        /\ HandlerOf(w).attrs # << >>
        /\ writes[w].data = StripAnsi(writes[w].data)

(***************************************************************************)
(* The key=value pairs of a line, read back from its text, and the pairs   *)
(* a list of attributes stands for when its groups are flattened.          *)
(***************************************************************************)
RECURSIVE Ascending(_)
Ascending(S) == IF S = {} THEN << >> ELSE <<Min(S)>> \o Ascending(S \ {Min(S)})

KeyAt(line, i) ==
    SubSeq(line, Max({k \in 1..(i - 1) : line[k] = " "}) + 1, i - 1)
ValueAt(line, i) ==
    SubSeq(line, i + 1, Min({k \in (i + 1)..Len(line) : line[k] \in {";", "\n"}}) - 1)

RenderedPairs(line) ==
    LET eqs == Ascending({i \in DOMAIN line : line[i] = "="})
    IN [n \in DOMAIN eqs |-> [key |-> KeyAt(line, eqs[n]), val |-> ValueAt(line, eqs[n])]]

ValueText(a) == IF a.kind = "Int64" THEN <<ToString(a.num)>> ELSE <<a.str>>

RECURSIVE FlatPairs(_, _)
FlatPairs(attrs, path) ==
    IF attrs = << >> THEN << >>
    ELSE LET a == Head(attrs)
             dotted == IF path = << >> THEN <<a.key>> ELSE path \o <<".", a.key>>
         IN (IF a.kind = "Group" THEN FlatPairs(a.group, dotted)
             ELSE <<[key |-> dotted, val |-> ValueText(a)]>>)
            \o FlatPairs(Tail(attrs), path)

\* what the calls that made handler i add up to
RECURSIVE ChainAttrs(_)
ChainAttrs(i) ==
    IF origin[i].parent = 0 THEN << >>
    ELSE ChainAttrs(origin[i].parent) \o origin[i].attrs

RECURSIVE ChainLabel(_)
ChainLabel(i) ==
    IF origin[i].parent = 0 \/ origin[i].name # "" THEN origin[i].name
    ELSE ChainLabel(origin[i].parent)

(***************************************************************************)
(* C5: no handler has an empty scope stack; the first thing on every line  *)
(* is the last entry of the handler's scope stack, which is the name of    *)
(* the most recent WithGroup with a non-empty name, or the constructor's   *)
(* name; the keys on the line are the attributes' own keys, dotted only by *)
(* the groups the attributes themselves are nested in, never by the scope  *)
(* stack.                                                                  *)
(***************************************************************************)
C5_ScopeLabel ==
    /\ \A i \in DOMAIN handlers : Len(handlers[i].groups) >= 1
    /\ \A w \in DOMAIN writes :
         LET line == StripAnsi(writes[w].data)
             h == HandlerOf(w)
             pairs == RenderedPairs(line)
             want == FlatPairs(h.attrs \o RecordOf(w).attrs, << >>)
         IN /\ line[1] = h.groups[Len(h.groups)]
            /\ line[1] = ChainLabel(CallOf(w).h)
            /\ line[2] = " "
            /\ Len(pairs) = Len(want)
            /\ \A n \in DOMAIN pairs : pairs[n].key = want[n].key

\* a handler two WithGroup calls deep, or one with inherited attributes
\* under a group, wrote a line with flat attributes: label db, key user
C5_Witness ==
    \E w \in DOMAIN writes :
        LET h == HandlerOf(w)
            line == StripAnsi(writes[w].data)
        IN /\ Len(h.groups) >= 2
           /\ h.attrs # << >>
           /\ line[1] = "db"
           /\ \E n \in DOMAIN RenderedPairs(line) : RenderedPairs(line)[n].key = <<"user">>

(***************************************************************************)
(* C6: a handler's inherited attributes are the arguments of the WithAttrs *)
(* calls that made it, concatenated in call order; a line shows the        *)
(* inherited attributes first and the record's own after them, both in     *)
(* their order.                                                            *)
(***************************************************************************)
C6_AttrOrder ==
    /\ \A i \in DOMAIN handlers : handlers[i].attrs = ChainAttrs(i)
    /\ \A w \in DOMAIN writes :
         RenderedPairs(StripAnsi(writes[w].data))
           = FlatPairs(ChainAttrs(CallOf(w).h), << >>) \o FlatPairs(RecordOf(w).attrs, << >>)

\* a handler made by two WithAttrs calls with different arguments wrote a
\* record that has two attributes of its own
C6_Witness ==
    \E w \in DOMAIN writes :
        LET i == CallOf(w).h
        IN /\ origin[i].op = "WithAttrs" /\ origin[i].parent > 1
           /\ origin[origin[i].parent].op = "WithAttrs"
           /\ origin[i].attrs # origin[origin[i].parent].attrs
           /\ Len(RecordOf(w).attrs) = 2
           /\ Len(RenderedPairs(StripAnsi(writes[w].data))) >= 5

(***************************************************************************)
(* C7: no step, whether WithAttrs, WithGroup or any step of Handle, on any *)
(* handler, changes a handler that exists: its scope stack, inherited      *)
(* attributes, options, mutex and writer stay as they are.                 *)
(***************************************************************************)
C7_NoMutation ==
    [][\A i \in DOMAIN handlers :
          i \in DOMAIN handlers' /\ handlers'[i] = handlers[i]]_vars

\* two handlers derived from the root, one by WithAttrs and one by
\* WithGroup, and a Handle call made: the root is as it was constructed and
\* neither sibling has what the other added
C7_Witness ==
    \E i, j \in DOMAIN handlers :
        /\ origin[i].parent = 1 /\ origin[i].op = "WithAttrs"
        /\ origin[j].parent = 1 /\ origin[j].op = "WithGroup"
        /\ handlers[1] = NewPrettyslogHandler("TestApp", << >>)
        /\ handlers[i].groups = <<"TestApp">> /\ handlers[j].attrs = << >>
        /\ calls # << >>

(***************************************************************************)
(* C9: a WithAttrs call with no attributes and a WithGroup call with the   *)
(* empty name return the receiver itself and leave every handler as it     *)
(* was, so what is returned renders as the receiver does.                  *)
(***************************************************************************)
IdentityCall(r) ==
    \/ r.op = "WithAttrs" /\ r.attrs = << >>
    \/ r.op = "WithGroup" /\ r.name = ""

C9_Identity ==
    [][(fuel' < fuel /\ IdentityCall(ret')) =>
          (ret'.result = ret'.recv /\ handlers' = handlers)]_vars

\* WithGroup("") was called on a derived handler and returned it
C9_Witness ==
    /\ ret.op = "WithGroup" /\ ret.name = ""
    /\ ret.recv > 1 /\ ret.result = ret.recv
    /\ Len(handlers) = 2
====
